---------------------------- MODULE Spec2Model ----------------------------
(***************************************************************************)
(* systemd-clone-generator (src/clone/clone-generator.c).                  *)
(*                                                                         *)
(* The generator reads the clone table line by line and, for every line    *)
(* sscanf() accepts, writes a service unit, two symlinks and a drop-in     *)
(* into the generator directory.                                           *)
(*                                                                         *)
(* Strings are sequences of characters (one-character TLA+ strings);       *)
(* text produced by the generator may also hold a literal of the source    *)
(* as one element.  A word is a string, a unit-file line is a key and a    *)
(* sequence of words.                                                      *)
(***************************************************************************)
EXTENDS Integers, Sequences, FiniteSets, TLC

VARIABLES proc, twin

vars == <<proc, twin>>

-----------------------------------------------------------------------------
(* Bounds and the input alphabet                                           *)

MaxLines == 2

ENOENT == 2

Dev == <<"/", "d", "e", "v", "/">>

LoopPrefix == Dev \o <<"l", "o", "o", "p">>

sdb == Dev \o <<"s", "d", "b">>
sdc == Dev \o <<"s", "d", "c">>
sdd == Dev \o <<"s", "d", "d">>
loop0 == LoopPrefix \o <<"0">>
loop1 == LoopPrefix \o <<"1">>
loop2 == LoopPrefix \o <<"2">>

IsSpace(c) == c \in {" ", "\t"}

RECURSIVE JoinWords(_)
JoinWords(ws) ==
    IF ws = <<>> THEN <<>>
    ELSE IF Len(ws) = 1 THEN ws[1]
    ELSE ws[1] \o <<" ">> \o JoinWords(Tail(ws))

-----------------------------------------------------------------------------
(* String helpers of the libraries the generator calls                     *)

startswith(s, prefix) ==
    /\ Len(s) >= Len(prefix)
    /\ SubSeq(s, 1, Len(prefix)) = prefix

RECURSIVE SkipLeading(_)
SkipLeading(s) ==
    IF s # <<>> /\ IsSpace(s[1]) THEN SkipLeading(Tail(s)) ELSE s

RECURSIVE SkipTrailing(_)
SkipTrailing(s) ==
    IF s # <<>> /\ IsSpace(s[Len(s)])
    THEN SkipTrailing(SubSeq(s, 1, Len(s) - 1))
    ELSE s

\* read_stripped_line(): the line without leading and trailing whitespace
strstrip(s) == SkipTrailing(SkipLeading(s))

RECURSIVE WordLen(_)
WordLen(s) ==
    IF s = <<>> \/ IsSpace(s[1]) THEN 0 ELSE 1 + WordLen(Tail(s))

\* One %ms conversion after another: skip whitespace, take the run of
\* non-whitespace characters; the scan stops at the end of the input or when
\* the format's conversions are used up.
RECURSIVE ScanWords(_, _)
ScanWords(s, conversions) ==
    LET t == SkipLeading(s)
        n == WordLen(t)
    IN IF conversions = 0 \/ t = <<>> THEN <<>>
       ELSE <<SubSeq(t, 1, n)>>
            \o ScanWords(SubSeq(t, n + 1, Len(t)), conversions - 1)

\* k = sscanf(line, "%ms %ms %ms %ms %ms", &name, &src, &dst, &meta, &options)
sscanf(line) == ScanWords(line, 5)

\* All whitespace-separated tokens of a line (what the line holds, as
\* opposed to what sscanf() converts)
Tokens(line) == ScanWords(line, Len(line))

\* unit_name_escape(): "/" becomes "-", "-" and a leading "." are hex-escaped
EscapeChar(c, first) ==
    IF c = "/" THEN <<"-">>
    ELSE IF c = "-" THEN <<"\\x2d">>
    ELSE IF c = "." /\ first THEN <<"\\x2e">>
    ELSE <<c>>

RECURSIVE EscapeFrom(_, _)
EscapeFrom(s, first) ==
    IF s = <<>> THEN <<>>
    ELSE EscapeChar(s[1], first) \o EscapeFrom(Tail(s), FALSE)

unit_name_escape(s) == EscapeFrom(s, TRUE)

unit_name_build(prefix, instance, suffix) ==
    <<prefix, "@">> \o instance \o <<suffix>>

RECURSIVE SkipSlashes(_)
SkipSlashes(s) ==
    IF s # <<>> /\ s[1] = "/" THEN SkipSlashes(Tail(s)) ELSE s

\* unit_name_from_path(): the escaped path without its leading slashes
unit_name_from_path(path, suffix) ==
    LET p == SkipSlashes(path)
    IN (IF p = <<>> THEN <<"-">> ELSE unit_name_escape(p)) \o <<suffix>>

\* cescape(): backslash, quotes are backslash-escaped
RECURSIVE cescape(_)
cescape(s) ==
    IF s = <<>> THEN <<>>
    ELSE (IF s[1] \in {"\\", "'", "\""} THEN <<"\\", s[1]>> ELSE <<s[1]>>)
         \o cescape(Tail(s))

path_join(dir, name) == <<dir, "/">> \o name

-----------------------------------------------------------------------------
(* The clone table: the lines the model draws its files from               *)

Word(c) == <<c>>

L_blank == <<" ">>
L_comment == JoinWords(<<<<"#", "a">>, sdb, sdc, sdd>>)
L_short == JoinWords(<<Word("s"), sdb, sdc>>)
L_disk == JoinWords(<<Word("a"), sdb, sdc, sdd>>)
L_disk_ro == JoinWords(<<Word("a"), sdb, sdc, sdd, <<"r", "o">>>>)
L_loop == JoinWords(<<Word("l"), loop0, loop1, loop2, <<"r", "o">>>>)
L_loop_bare == JoinWords(<<Word("l"), loop0, loop1, loop2>>)
L_loop_rw == JoinWords(<<Word("l"), loop0, loop1, loop2, <<"r", "w">>>>)
L_mixed == <<" ">> \o JoinWords(<<<<"m", "-", "1">>, loop0, sdb, loop1>>)
L_long == JoinWords(<<Word("b"), sdb, sdc, sdd, <<"r", "o">>, Word("x")>>)

LineSet == {L_blank, L_comment, L_short, L_disk, L_loop, L_mixed, L_long}

\* The lines of the tables of two runs compared: the first run's, and their
\* variants with the options token added, dropped or changed
PairBaseSet == {L_disk, L_loop}

PairLineSet == PairBaseSet \cup {L_disk_ro, L_loop_bare, L_loop_rw}

TablesOver(lines) == UNION {[1..n -> lines] : n \in 0..MaxLines}

-----------------------------------------------------------------------------
(* generate_clone_units(): names and unit text                             *)

SYSTEMD_CLONE_PATH == <<"SYSTEMD_CLONE_PATH">>

SPECIAL_CLONE_TARGET == <<"clone.target">>

Quoted(w) == <<"'">> \o w \o <<"'">>

KV(key, val) == [key |-> key, val |-> val]

\* bool setup_loop = startswith(source_dev, "/dev/loop") && ...
setup_loop_any(source_dev, dest_dev, metadata_dev) ==
    \/ startswith(source_dev, LoopPrefix)
    \/ startswith(dest_dev, LoopPrefix)
    \/ startswith(metadata_dev, LoopPrefix)

setup_loop(source_dev, dest_dev, metadata_dev) ==
    /\ startswith(source_dev, LoopPrefix)
    /\ startswith(dest_dev, LoopPrefix)
    /\ startswith(metadata_dev, LoopPrefix)

\* The fifth word of ExecStart: the literal "" of the source
exec_options_forwarded(options) == options

exec_options(options) == <<>>

ServiceUnit(clone_name) ==
    unit_name_build("systemd-clone", unit_name_escape(clone_name), ".service")

\* dmname = strjoina("dev-mapper-", e, ".device")
DmName(clone_name) ==
    <<"dev-mapper-">> \o unit_name_escape(clone_name) \o <<".device">>

BlockdevTarget(clone_name) ==
    <<"blockdev@dev-mapper-">> \o unit_name_escape(clone_name) \o <<".target">>

DependencyLines(source_dev, dest_dev, metadata_dev) ==
    LET units == << unit_name_from_path(source_dev, ".device"),
                    unit_name_from_path(dest_dev, ".device"),
                    unit_name_from_path(metadata_dev, ".device") >>
    IN << KV("BindsTo", units), KV("Requires", units), KV("After", units) >>

\* The text the fprintf() calls put into the unit file, line by line
UnitText(clone_name, source_dev, dest_dev, metadata_dev, options) ==
    LET loop == setup_loop(source_dev, dest_dev, metadata_dev)
    IN << KV("[Unit]", <<>>),
          KV("Description",
             <<Word("Create dm-clone device"), path_join("/dev/mapper", clone_name)>>),
          KV("Documentation",
             <<Word("man:dmsetup(8)"), Word("man:fstab(5)"),
               Word("man:systemd-fstab-generator(8)")>>),
          KV("DefaultDependencies", <<Word("no")>>) >>
       \o (IF ~loop THEN DependencyLines(source_dev, dest_dev, metadata_dev)
           ELSE <<>>)
       \o << KV("Before", <<BlockdevTarget(clone_name)>>),
             KV("Wants", <<BlockdevTarget(clone_name)>>),
             KV("Conflicts", <<Word("shutdown.target")>>),
             KV("", <<>>),
             KV("[Service]", <<>>),
             KV("Type", <<Word("oneshot")>>),
             KV("RemainAfterExit", <<Word("yes")>>) >>
       \o (IF loop THEN <<KV("ExecStartPre", <<Word("/usr/share/script.sh")>>)>>
           ELSE <<>>)
       \o << KV("ExecStart",
                << SYSTEMD_CLONE_PATH, Word("add"),
                   Quoted(clone_name), Quoted(cescape(source_dev)),
                   Quoted(cescape(dest_dev)), Quoted(cescape(metadata_dev)),
                   Quoted(exec_options(options)) >>),
             KV("ExecStop", <<SYSTEMD_CLONE_PATH, Word("remove"), clone_name>>),
             KV("TimeoutSec", <<Word("0")>>) >>

\* generator_add_symlink(arg_dest, dst, "requires", unit)
Symlink(dst, dep_type, unit) ==
    [dir |-> dst \o <<".", dep_type>>, name |-> unit]

\* write_drop_in(arg_dest, dmname, 40, "device-timeout", ...)
DropIn(unit) ==
    [unit |-> unit, level |-> 40, name |-> "device-timeout",
     data |-> <<KV("[Unit]", <<>>), KV("JobTimeoutSec", <<Word("infinity")>>)>>]

-----------------------------------------------------------------------------
(* State of one run of the generator                                       *)
(*                                                                         *)
(*   clonetab    the lines of the table file                               *)
(*   pc          where the run is                                          *)
(*   fopen_r     what fopen_unlocked() returned (1 before the call)        *)
(*   pos         lines consumed from the file                              *)
(*   clone_line, ret   the locals of add_clone_devices()                   *)
(*   args        the arguments of the generate_clone_units() call under    *)
(*               way: name, src, dst, meta, options (<<>> for NULL)        *)
(*   unit_files, symlinks, dropins   the generator directory               *)
(*   log         the error and warning messages logged                     *)
(*   calls       one record per generate_clone_units() call: the table     *)
(*               line, the artifacts written, the step it returned from    *)
(*               and the value returned                                    *)
(*   returned    the negative values the calls of run() and of             *)
(*               add_clone_devices() returned, in order                    *)
(*   status      what run() returned (pc = "done")                         *)
(***************************************************************************)

InitProc(tbl) ==
    [clonetab |-> tbl, pc |-> "run", fopen_r |-> 1, pos |-> 0,
     clone_line |-> 0, ret |-> 0, args |-> <<>>,
     unit_files |-> {}, symlinks |-> {}, dropins |-> {},
     log |-> <<>>, calls |-> <<>>, returned |-> <<>>, status |-> 0]

Off == [InitProc(<<>>) EXCEPT !.pc = "off"]

LogMsg(level, msg, line) == [level |-> level, msg |-> msg, line |-> line]

\* RET_GATHER(ret, expr): ret keeps the first negative value
RET_GATHER_overwrite(ret, r) == r

RET_GATHER(ret, r) == IF r < 0 /\ ret >= 0 THEN r ELSE ret

\* if (IN_SET(line[0], 0, '#')) continue;
SkippedNoHash(line) == line = <<>>

Skipped(line) == line = <<>> \/ line[1] = "#"

\* if (k < 4 || k > 5)
ParseFails(k) == k < 4 \/ k > 5

\* clone_line++ comes before the lines that are skipped
LineCounted_after_skip(line) == ~Skipped(line)

LineCounted(line) == TRUE

Exit(s, r) == [s EXCEPT !.pc = "done", !.status = r, !.args = <<>>]

Failed(s, r) == [s EXCEPT !.returned = IF r < 0 THEN Append(@, r) ELSE @]

\* run(), 221-231: hashmap_new() fails with log_oom(), or add_clone_devices()
run_enter(s, r) ==
    IF r < 0
    THEN Exit(Failed([s EXCEPT !.log = Append(@, LogMsg("error", "oom", 0))], r),
              r)
    ELSE [s EXCEPT !.pc = "fopen"]

\* What add_clone_devices() returns when the table cannot be opened: the
\* failure is logged unless it is ENOENT, and 0 is returned either way
open_failed_status(r) == 0

\* add_clone_devices(), 180-188
fopen_unlocked(s, r) ==
    IF r < 0
    THEN Exit(Failed([s EXCEPT !.fopen_r = r,
                               !.log = IF -r # ENOENT
                                       THEN Append(@, LogMsg("error", "open", 0))
                                       ELSE @],
                     r),
              open_failed_status(r))
    ELSE [s EXCEPT !.fopen_r = 0, !.pc = "read"]

\* What add_clone_devices() returns when a read fails: the read's error, not
\* the value gathered in ret
read_failed_status(ret, r) == r

NewCall(line) ==
    [line |-> line, made |-> {}, done |-> FALSE, at |-> "", r |-> 0]

\* add_clone_devices(), 190-214: one iteration of the loop up to the call
read_line(s, r) ==
    IF r < 0
    THEN Exit(Failed([s EXCEPT !.log = Append(@, LogMsg("error", "read", 0))],
                     r),
              read_failed_status(s.ret, r))
    ELSE IF s.pos = Len(s.clonetab)
    THEN Exit(s, s.ret)
    ELSE LET line == strstrip(s.clonetab[s.pos + 1])
             n == IF LineCounted(line) THEN s.clone_line + 1 ELSE s.clone_line
             t == [s EXCEPT !.pos = @ + 1, !.clone_line = n]
             w == sscanf(line)
             k == Len(w)
         IN IF Skipped(line) THEN t
            ELSE IF ParseFails(k)
            THEN [t EXCEPT !.log = Append(@, LogMsg("error", "parse", n))]
            ELSE [t EXCEPT !.pc = "prepare",
                           !.args = IF k = 4 THEN w \o << <<>> >> ELSE w,
                           !.calls = Append(@, NewCall(n))]

\* return r from generate_clone_units() into RET_GATHER(ret, ...)
Return(s, r) ==
    Failed([s EXCEPT !.pc = "read", !.args = <<>>,
                     !.ret = RET_GATHER(@, r),
                     !.calls[Len(s.calls)].done = TRUE,
                     !.calls[Len(s.calls)].at = s.pc,
                     !.calls[Len(s.calls)].r = r],
           r)

Made(s, what) == [s EXCEPT !.calls[Len(s.calls)].made = @ \cup {what}]

\* generate_clone_units(), 61-102: path_join, unit_name_escape,
\* unit_name_build, three unit_name_from_path, three cescape; r is the
\* value of the first that fails
prepare_names(s, r) ==
    IF r < 0
    THEN Return([s EXCEPT !.log = Append(@, LogMsg("error", "names", 0))], r)
    ELSE [s EXCEPT !.pc = "open_unit"]

\* The directory with the file created or written: a file of the same name
\* (a duplicate table entry) is replaced, unless the open fails (r < 0)
WithUnitFile(files, file) ==
    {f \in files : f.name # file.name} \cup {file}

\* generate_clone_units(), 104-106
generator_open_unit_file(s, r) ==
    IF r < 0 THEN Return(s, r)
    ELSE [s EXCEPT !.pc = "write_unit",
                   !.unit_files =
                       WithUnitFile(@, [name |-> ServiceUnit(s.args[1]),
                                        text |-> <<>>, complete |-> FALSE])]

\* generate_clone_units(), 108-150: the fprintf() calls and
\* fflush_and_check(); a failed flush leaves the first n lines in the file
write_unit(s, r, n) ==
    LET text == UnitText(s.args[1], s.args[2], s.args[3], s.args[4], s.args[5])
        unit == ServiceUnit(s.args[1])
    IN IF r < 0
       THEN Return([s EXCEPT !.unit_files =
                                 WithUnitFile(@, [name |-> unit,
                                                  text |-> SubSeq(text, 1, n),
                                                  complete |-> FALSE]),
                             !.log = Append(@, LogMsg("error", "write", 0))],
                   r)
       ELSE Made([s EXCEPT !.pc = "symlink_dm",
                           !.unit_files =
                               WithUnitFile(@, [name |-> unit, text |-> text,
                                                complete |-> TRUE])],
                 "unit")

\* generate_clone_units(), 152-156
symlink_dm(s, r) ==
    IF r < 0 THEN Return(s, r)
    ELSE Made([s EXCEPT !.pc = "drop_in",
                        !.symlinks = @ \cup {Symlink(DmName(s.args[1]), "requires",
                                                     ServiceUnit(s.args[1]))}],
              "dm_symlink")

\* What a failed write_drop_in() does to the call
drop_in_failed_returns(s, r) ==
    Return([s EXCEPT !.log = Append(@, LogMsg("error", "drop_in", 0))], r)

drop_in_failed(s, r) ==
    [s EXCEPT !.pc = "symlink_target",
              !.log = Append(@, LogMsg("warning", "drop_in", 0))]

\* generate_clone_units(), 158-164
write_drop_in(s, r) ==
    IF r < 0 THEN drop_in_failed(s, r)
    ELSE Made([s EXCEPT !.pc = "symlink_target",
                        !.dropins = @ \cup {DropIn(DmName(s.args[1]))}],
              "drop_in")

\* generate_clone_units(), 166-171
symlink_target(s, r) ==
    IF r < 0 THEN Return(s, r)
    ELSE Return(Made([s EXCEPT !.symlinks =
                                   @ \cup {Symlink(SPECIAL_CLONE_TARGET, "requires",
                                                   ServiceUnit(s.args[1]))}],
                     "target_symlink"),
                0)

-----------------------------------------------------------------------------
(* What the calls into the system can return                               *)

OomResults == {0, -12}
OpenResults == {0, -ENOENT, -13}
ReadResults == {0, -5}
NameResults == {0, -12, -22}
CreateResults == {0, -13}
FlushResults == {0, -28}
SymlinkResults == {0, -13}
DropInResults == {0, -5}
PartialLines == {0, 4}

-----------------------------------------------------------------------------
(* The steps.  A second run (twin), when there is one, takes every step    *)
(* with the same results from the system.                                  *)

Follows(at, next) ==
    twin' = IF twin.pc = "off" THEN twin
            ELSE IF twin.pc = at THEN next
            ELSE [twin EXCEPT !.pc = "diverged"]

Run ==
    /\ proc.pc = "run"
    /\ \E r \in OomResults :
          /\ proc' = run_enter(proc, r)
          /\ Follows("run", run_enter(twin, r))

OpenTable ==
    /\ proc.pc = "fopen"
    /\ \E r \in OpenResults :
          /\ proc' = fopen_unlocked(proc, r)
          /\ Follows("fopen", fopen_unlocked(twin, r))

ReadLine ==
    /\ proc.pc = "read"
    /\ \E r \in ReadResults :
          /\ proc' = read_line(proc, r)
          /\ Follows("read", read_line(twin, r))

PrepareNames ==
    /\ proc.pc = "prepare"
    /\ \E r \in NameResults :
          /\ proc' = prepare_names(proc, r)
          /\ Follows("prepare", prepare_names(twin, r))

OpenUnitFile ==
    /\ proc.pc = "open_unit"
    /\ \E r \in CreateResults :
          /\ proc' = generator_open_unit_file(proc, r)
          /\ Follows("open_unit", generator_open_unit_file(twin, r))

WriteUnit ==
    /\ proc.pc = "write_unit"
    /\ \E r \in FlushResults, n \in PartialLines :
          /\ r = 0 => n = 0
          /\ proc' = write_unit(proc, r, n)
          /\ Follows("write_unit", write_unit(twin, r, n))

SymlinkDm ==
    /\ proc.pc = "symlink_dm"
    /\ \E r \in SymlinkResults :
          /\ proc' = symlink_dm(proc, r)
          /\ Follows("symlink_dm", symlink_dm(twin, r))

WriteDropIn ==
    /\ proc.pc = "drop_in"
    /\ \E r \in DropInResults :
          /\ proc' = write_drop_in(proc, r)
          /\ Follows("drop_in", write_drop_in(twin, r))

SymlinkTarget ==
    /\ proc.pc = "symlink_target"
    /\ \E r \in SymlinkResults :
          /\ proc' = symlink_target(proc, r)
          /\ Follows("symlink_target", symlink_target(twin, r))

Next ==
    \/ Run
    \/ OpenTable
    \/ ReadLine
    \/ PrepareNames
    \/ OpenUnitFile
    \/ WriteUnit
    \/ SymlinkDm
    \/ WriteDropIn
    \/ SymlinkTarget

Init ==
    /\ proc \in {InitProc(tbl) : tbl \in TablesOver(LineSet)}
    /\ twin = Off

Spec == Init /\ [][Next]_vars

\* Two tables that differ only in the options token of some lines
SameButOptions(l1, l2) ==
    \/ l1 = l2
    \/ /\ Len(Tokens(l1)) \in {4, 5}
       /\ Len(Tokens(l2)) \in {4, 5}
       /\ SubSeq(Tokens(l1), 1, 4) = SubSeq(Tokens(l2), 1, 4)

InitPair ==
    \E t1 \in TablesOver(PairBaseSet), t2 \in TablesOver(PairLineSet) :
        /\ Len(t1) = Len(t2)
        /\ \A i \in 1..Len(t1) : SameButOptions(t1[i], t2[i])
        /\ proc = InitProc(t1)
        /\ twin = InitProc(t2)

SpecPair == InitPair /\ [][Next]_vars

-----------------------------------------------------------------------------
(* Vocabulary of the properties                                            *)

Done == proc.pc = "done"

AllArtifacts == {"unit", "dm_symlink", "drop_in", "target_symlink"}

\* Line i of the table as read_stripped_line() hands it over
Stripped(i) == strstrip(proc.clonetab[i])

BlankOrComment(i) == Stripped(i) = <<>> \/ Stripped(i)[1] = "#"

TokenCount(i) == Len(Tokens(Stripped(i)))

CallsOfLine(i) == {j \in DOMAIN proc.calls : proc.calls[j].line = i}

ParseErrors == {j \in DOMAIN proc.log : proc.log[j].msg = "parse"}

ParseErrorsOfLine(i) == {j \in ParseErrors : proc.log[j].line = i}

ReadFailed == \E j \in DOMAIN proc.log : proc.log[j].msg = "read"

DropInFailed == \E j \in DOMAIN proc.log : proc.log[j].msg = "drop_in"

Keys(text) == [j \in DOMAIN text |-> text[j].key]

LinesWithKey(text, key) == {j \in DOMAIN text : text[j].key = key}

-----------------------------------------------------------------------------
(* C1: every non-blank, non-comment line read whose token count is below 4 *)
(* or above 5 is logged as a parse error with no generate_clone_units()    *)
(* call, and only lines of exactly 4 or 5 tokens are handed to             *)
(* generate_clone_units().                                                 *)
C1_BadTokenCountRejected ==
    /\ \A i \in 1..proc.pos :
          (~BlankOrComment(i) /\ TokenCount(i) \notin {4, 5})
              => /\ ParseErrorsOfLine(i) # {}
                 /\ CallsOfLine(i) = {}
    /\ \A j \in DOMAIN proc.calls :
          TokenCount(proc.calls[j].line) \in {4, 5}

(* C2: when the table cannot be opened for a reason other than ENOENT the  *)
(* run returns a negative status and no entry is processed.                *)
C2_OpenFailureIsFatal ==
    (Done /\ proc.fopen_r < 0 /\ proc.fopen_r # -ENOENT)
        => /\ proc.status < 0
           /\ proc.calls = <<>>

FirstError == IF proc.returned = <<>> THEN 0 ELSE proc.returned[1]

(* C3: once the table is open, the final status is the first error any     *)
(* step returned (0 if none did), and a failing entry does not stop the    *)
(* scan: without a read failure every line of the table is read.           *)
C3_FirstErrorIsStatus ==
    (Done /\ proc.fopen_r = 0)
        => /\ proc.status = FirstError
           /\ ~ReadFailed => proc.pos = Len(proc.clonetab)

(* C4 as claimed: a run that returns success has written all four          *)
(* artifacts, the drop-in included, of every entry it processed.           *)
C4_SuccessMeansAllArtifacts ==
    (Done /\ proc.status = 0)
        => \A j \in DOMAIN proc.calls : proc.calls[j].made = AllArtifacts

(* C4 as amended: a run that returns success has written the unit file and *)
(* both symlinks of every entry it processed; the drop-in may be missing.  *)
C4_SuccessMeansUnitAndSymlinks ==
    (Done /\ proc.status = 0)
        => \A j \in DOMAIN proc.calls :
              /\ proc.calls[j].r = 0
              /\ AllArtifacts \ {"drop_in"} \subseteq proc.calls[j].made

C4_Witness ==
    /\ Done
    /\ proc.status = 0
    /\ \E j \in DOMAIN proc.calls :
          proc.calls[j].made = AllArtifacts \ {"drop_in"}

LoopMode(args) ==
    \A i \in 2..4 : startswith(args[i], LoopPrefix)

DeviceUnits(args) ==
    [i \in 1..3 |-> unit_name_from_path(args[i + 1], ".device")]

WrittenText ==
    (CHOOSE f \in proc.unit_files : f.name = ServiceUnit(proc.args[1])).text

(* C5: the unit text just flushed for an entry has, when not all three     *)
(* devices are loop devices, one BindsTo=, one Requires= and one After=    *)
(* line listing the source, dest and metadata device units in that order   *)
(* and no ExecStartPre= line; when all three are loop devices it has none  *)
(* of the three and exactly one ExecStartPre= line.                        *)
C5_LoopModeDecidesDependencies ==
    proc.pc = "symlink_dm"
        => LET text == WrittenText
               hard == {"BindsTo", "Requires", "After"}
           IN IF LoopMode(proc.args)
              THEN /\ \A key \in hard : LinesWithKey(text, key) = {}
                   /\ Cardinality(LinesWithKey(text, "ExecStartPre")) = 1
              ELSE /\ \A key \in hard :
                         /\ Cardinality(LinesWithKey(text, key)) = 1
                         /\ \A j \in LinesWithKey(text, key) :
                               text[j].val = DeviceUnits(proc.args)
                   /\ LinesWithKey(text, "ExecStartPre") = {}

C5_Witness ==
    /\ proc.pc = "symlink_dm"
    /\ ~LoopMode(proc.args)
    /\ \E i \in 2..4 : startswith(proc.args[i], LoopPrefix)

NoArtifacts ==
    /\ proc.calls = <<>>
    /\ proc.unit_files = {}
    /\ proc.symlinks = {}
    /\ proc.dropins = {}

OnlyBlankAndComments == \A i \in DOMAIN proc.clonetab : BlankOrComment(i)

(* C6 as claimed: a run over a missing table, or over a table that was     *)
(* opened and holds only blank and comment lines, returns success and      *)
(* writes nothing.                                                         *)
C6_EmptyTableSucceeds ==
    (Done /\ (\/ proc.fopen_r = -ENOENT
              \/ proc.fopen_r = 0 /\ OnlyBlankAndComments))
        => /\ proc.status = 0
           /\ NoArtifacts

(* C6 as amended: the same, provided no read of the table fails; with a    *)
(* failed read the run still writes nothing.                               *)
C6_EmptyTableSucceedsIfRead ==
    (Done /\ (\/ proc.fopen_r = -ENOENT
              \/ proc.fopen_r = 0 /\ OnlyBlankAndComments))
        => /\ ~ReadFailed => proc.status = 0
           /\ NoArtifacts

C6_Witness ==
    /\ Done
    /\ proc.fopen_r = 0
    /\ proc.clonetab # <<>>
    /\ OnlyBlankAndComments
    /\ proc.pos = Len(proc.clonetab)
    /\ proc.status = 0

ExecStartOptions(text) ==
    {text[j].val[7] : j \in LinesWithKey(text, "ExecStart")}

(* C7: two runs over tables that differ only in the options token, taking  *)
(* the same results from the system, stay in step and hold the same unit   *)
(* files, symlinks, drop-ins and status; the fifth argument of every       *)
(* ExecStart line written is the empty string.                             *)
C7_OptionsHaveNoInfluence ==
    /\ twin.pc = proc.pc
    /\ twin.unit_files = proc.unit_files
    /\ twin.symlinks = proc.symlinks
    /\ twin.dropins = proc.dropins
    /\ twin.status = proc.status
    /\ \A f \in proc.unit_files \cup twin.unit_files :
          ExecStartOptions(f.text) \subseteq {Quoted(<<>>)}

C7_Witness ==
    /\ Done
    /\ twin.clonetab # proc.clonetab
    /\ \E f \in proc.unit_files : f.complete
    /\ \E i \in DOMAIN proc.clonetab :
          /\ TokenCount(i) = 5
          /\ Len(Tokens(twin.clonetab[i])) = 5
          /\ twin.clonetab[i] # proc.clonetab[i]

ValidLines ==
    {i \in DOMAIN proc.clonetab : ~BlankOrComment(i) /\ TokenCount(i) \in {4, 5}}

NameOfLine(i) == Tokens(Stripped(i))[1]

ExpectedUnitFiles ==
    {ServiceUnit(NameOfLine(i)) : i \in ValidLines}

ExpectedSymlinks ==
    UNION {{Symlink(DmName(NameOfLine(i)), "requires", ServiceUnit(NameOfLine(i))),
            Symlink(SPECIAL_CLONE_TARGET, "requires", ServiceUnit(NameOfLine(i)))}
           : i \in ValidLines}

ExpectedDropIns == {DropIn(DmName(NameOfLine(i))) : i \in ValidLines}

NothingFailed == proc.returned = <<>> /\ ~DropInFailed

DistinctNames ==
    \A i, j \in ValidLines : NameOfLine(i) = NameOfLine(j) => i = j

(* C8: after a run in which nothing failed, over a table whose entry names *)
(* are pairwise distinct, the directory holds exactly the unit file, the   *)
(* two symlinks and the priority-40 drop-in of every valid (4 or 5 token)  *)
(* entry, and every symlink names a unit file written in this run.         *)
C8_ExactlyFourArtifactsPerEntry ==
    (Done /\ proc.fopen_r = 0 /\ NothingFailed /\ DistinctNames)
        => /\ {f.name : f \in proc.unit_files} = ExpectedUnitFiles
           /\ \A f \in proc.unit_files : f.complete
           /\ proc.symlinks = ExpectedSymlinks
           /\ proc.dropins = ExpectedDropIns
           /\ \A d \in proc.dropins : d.level = 40
           /\ \A l \in proc.symlinks :
                 \E f \in proc.unit_files : f.name = l.name /\ f.complete

\* The same over tables without a line of more than five tokens
C8_HoldsWithoutLongLines ==
    (\A i \in DOMAIN proc.clonetab : TokenCount(i) <= 5)
        => C8_ExactlyFourArtifactsPerEntry

ReportedLines == {proc.log[j].line : j \in ParseErrors}

(* C9: the line counter equals the number of lines read, blank and comment *)
(* lines included, and the parse errors logged carry exactly the positions *)
(* in the file of the lines sscanf() rejected.                             *)
C9_LineCounterIsPosition ==
    /\ proc.clone_line = proc.pos
    /\ ReportedLines =
          {i \in 1..proc.pos : ~BlankOrComment(i) /\ TokenCount(i) < 4}
    /\ Cardinality(ParseErrors) = Cardinality(ReportedLines)
    /\ \A j \in DOMAIN proc.calls :
          /\ proc.calls[j].line \in 1..proc.pos
          /\ ~BlankOrComment(proc.calls[j].line)

C9_Witness ==
    /\ proc.pos = 2
    /\ BlankOrComment(1)
    /\ \E j \in ParseErrors : proc.log[j].line = 2

StepsAfter(at) ==
    CASE at = "prepare" -> {}
      [] at = "open_unit" -> {}
      [] at = "write_unit" -> {}
      [] at = "symlink_dm" -> {"unit"}
      [] at = "symlink_target" -> {"unit", "dm_symlink"}
      [] OTHER -> {"none"}

(* C10: the artifacts of an entry appear in the order unit file,           *)
(* mapper-device symlink, drop-in, clone-target symlink; a call that       *)
(* failed deriving names has none; a symlink or drop-in needs the flushed  *)
(* unit file; the clone-target symlink needs the mapper-device symlink; a  *)
(* failure at any step stops the later ones, except that no call returns   *)
(* from the drop-in step, whose failure leaves the clone-target symlink    *)
(* to be made.                                                             *)
C10_StepsInOrder ==
    \A j \in DOMAIN proc.calls :
        LET c == proc.calls[j]
        IN /\ c.made # {} => "unit" \in c.made
           /\ "drop_in" \in c.made => "dm_symlink" \in c.made
           /\ "target_symlink" \in c.made => "dm_symlink" \in c.made
           /\ (c.done /\ c.at = "prepare") => c.made = {}
           /\ (c.done /\ c.r < 0)
                 => /\ c.at # "drop_in"
                    /\ StepsAfter(c.at) \subseteq c.made
                    /\ c.made \subseteq StepsAfter(c.at) \cup {"drop_in"}
                    /\ "drop_in" \in c.made => c.at = "symlink_target"
           /\ (c.done /\ c.r = 0)
                 => /\ c.at = "symlink_target"
                    /\ AllArtifacts \ {"drop_in"} \subseteq c.made
           /\ ~c.done
                 => c.made =
                       CASE proc.pc = "symlink_dm" -> {"unit"}
                         [] proc.pc = "drop_in" -> {"unit", "dm_symlink"}
                         [] proc.pc = "symlink_target" ->
                               (c.made \cap {"drop_in"}) \cup {"unit", "dm_symlink"}
                         [] OTHER -> {}

C10_Witness ==
    /\ Len(proc.calls) = 2
    /\ proc.calls[1].done /\ proc.calls[1].at = "prepare"
    /\ proc.calls[2].made = {"unit", "dm_symlink", "target_symlink"}
    /\ DropInFailed

=============================================================================
